---------------------------- MODULE Spec2Model ----------------------------
(***************************************************************************)
(* Model of the prompt-tuner health path:                                  *)
(*   app/app.py            create_app, health_check                        *)
(*   app/utils/app_info.py get_app_info, get_health_status                 *)
(*                                                                         *)
(* Text is modelled as sequences of one-character strings, so that         *)
(* str.strip, str.split, str.startswith and str.lower are computed the way *)
(* Python computes them.  A dict is a function whose DOMAIN is its key set.*)
(***************************************************************************)
EXTENDS Naturals, Sequences, FiniteSets

VARIABLES
    descriptor,   \* the pyproject.toml file on disk
    environ,      \* os.environ: a mapping from variable names to text
    app,          \* the Flask application built by create_app ("config" dict)
    pc,           \* pc[r]: where request r stands inside health_check
    found,        \* found[r]: what pyproject_path.exists() returned to r
    f,            \* f[r]: the file object r opened (content seen at open)
    pos,          \* pos[r]: number of lines r's "for line in f" has consumed
    app_name,     \* app_name[r]: local variable of get_app_info
    app_version,  \* app_version[r]: local variable of get_app_info
    exc,          \* exc[r]: str(e) of the exception r caught
    env_seen,     \* env_seen[r]: os.environ as r read it with os.getenv
    app_info,     \* app_info[r]: the dict get_app_info returned to r
    response      \* response[r]: (body, status) health_check returned

vars == <<descriptor, environ, app, pc, found, f, pos, app_name, app_version,
          exc, env_seen, app_info, response>>

(***************************************************************************)
(* Bounds                                                                  *)
(***************************************************************************)
MaxLines == 2     \* longest descriptor file of the parser specification
MaxTime  == 1     \* clock readings 0..MaxTime

Requests == {"r1", "r2"}     \* request threads the framework runs

(***************************************************************************)
(* Python string methods                                                   *)
(***************************************************************************)
Whitespace == {" ", "\t", "\n"}
Quotes     == {"\"", "'"}

RECURSIVE LStrip(_, _)
LStrip(s, chars) ==
    IF s # <<>> /\ Head(s) \in chars THEN LStrip(Tail(s), chars) ELSE s

RECURSIVE RStrip(_, _)
RStrip(s, chars) ==
    IF s # <<>> /\ s[Len(s)] \in chars
    THEN RStrip(SubSeq(s, 1, Len(s) - 1), chars)
    ELSE s

\* str.strip(chars); str.strip() is Strip(s, Whitespace)
Strip(s, chars) == RStrip(LStrip(s, chars), chars)

\* str.startswith(prefix)
StartsWith(s, prefix) ==
    /\ Len(s) >= Len(prefix)
    /\ SubSeq(s, 1, Len(prefix)) = prefix

\* str.split(sep) for a one-character separator: the list of the pieces
RECURSIVE Split(_, _)
Split(s, sep) ==
    IF \A i \in 1..Len(s) : s[i] # sep
    THEN <<s>>
    ELSE LET k == CHOOSE i \in 1..Len(s) :
                      /\ s[i] = sep
                      /\ \A j \in 1..(i - 1) : s[j] # sep
         IN  <<SubSeq(s, 1, k - 1)>> \o Split(SubSeq(s, k + 1, Len(s)), sep)

LowerChar(c) ==
    CASE c = "T" -> "t"
      [] c = "R" -> "r"
      [] c = "U" -> "u"
      [] c = "E" -> "e"
      [] OTHER   -> c

\* str.lower()
Lower(s) == [i \in 1..Len(s) |-> LowerChar(s[i])]


(***************************************************************************)
(* Text constants of app_info.py                                           *)
(***************************************************************************)
DefaultName    == <<"p", "r", "o", "m", "p", "t", "-", "t", "u", "n", "e", "r">>
DefaultVersion == <<"u", "n", "k", "n", "o", "w", "n">>
NamePrefix     == <<"n", "a", "m", "e", " ", "=", " ">>
VersionPrefix  == <<"v", "e", "r", "s", "i", "o", "n", " ", "=", " ">>
ErrorPrefix    ==
    <<"F", "a", "i", "l", "e", "d", " ", "t", "o", " ", "r", "e", "a", "d", " ">>
        \o <<"p", "r", "o", "j", "e", "c", "t", " ", "i", "n", "f", "o", ":", " ">>
HealthyText    == <<"h", "e", "a", "l", "t", "h", "y">>
DevelopmentText == <<"d", "e", "v", "e", "l", "o", "p", "m", "e", "n", "t">>
FalseText      == <<"f", "a", "l", "s", "e">>
TrueText       == <<"t", "r", "u", "e">>
\* f"{major}.{minor}.{micro}" of the running interpreter
PythonVersion  == <<"3", ".", "1", "1", ".", "4">>

\* str(e) of the exceptions the read can raise
StrFileNotFound  == <<"[", "E", "r", "r", "n", "o", " ", "2", "]">>
StrPermission    == <<"[", "E", "r", "r", "n", "o", " ", "1", "3", "]">>
StrUnicodeDecode == <<"u", "t", "f", "-", "8">>

(***************************************************************************)
(* The descriptor file and the process environment                         *)
(***************************************************************************)
\* A descriptor on disk.  "lines" are its lines without their terminator;
\* "bad" is the index of the first line whose bytes do not decode as utf-8
\* (0: every line decodes).
Descriptor(lines, readable, bad) ==
    [exists |-> TRUE, readable |-> readable, lines |-> lines, bad |-> bad]

Absent == [exists |-> FALSE, readable |-> FALSE, lines |-> <<>>, bad |-> 0]

Quoted(text) == <<"\"">> \o text \o <<"\"">>

SectionLine  == <<"[", "p", "r", "o", "j", "e", "c", "t", "]">>
NameLine     == NamePrefix \o Quoted(<<"p", "t">>)
VersionLine  == VersionPrefix \o Quoted(<<"0", ".", "2", ".", "0">>)

\* The states of the descriptor the served application is run against.
DescriptorStates ==
    { Absent,
      Descriptor(<<NameLine, VersionLine>>, TRUE, 0),     \* well-formed
      Descriptor(<<VersionLine>>, TRUE, 0),               \* no name key
      Descriptor(<<NameLine>>, TRUE, 0),                  \* no version key
      Descriptor(<<SectionLine>>, TRUE, 0),               \* neither key
      Descriptor(<<NameLine, VersionLine>>, FALSE, 0),    \* unreadable
      Descriptor(<<NameLine, VersionLine>>, TRUE, 2) }    \* undecodable

\* The states of the descriptor concurrent requests are run against.
SharedDescriptors ==
    { Absent,
      Descriptor(<<NameLine, VersionLine>>, TRUE, 0),
      Descriptor(<<NameLine, VersionLine>>, TRUE, 2) }

\* What may follow a key prefix on a line of the parser specification.
ValueTexts ==
    { Quoted(<<"a">>),                                    \* "a"
      <<" ", "'", "b", "'">>,                             \*  'b'
      Quoted(<<>>),                                       \* ""
      <<>>,                                               \* nothing
      <<"=", "a">>,                                       \* =a
      Quoted(<<"a", "=", "b">>),                          \* "a=b"
      Quoted(DefaultName),                                \* "prompt-tuner"
      Quoted(<<"0", ".", "2", ".", "0">>) }               \* "0.2.0"

OtherLines ==
    { SectionLine,
      <<"n", "a", "m", "e", " ", "=", "\"", "a", "\"">>,
      <<" ", " ">> \o NamePrefix \o Quoted(<<"c">>) }

ParseLines ==
    {NamePrefix \o v : v \in ValueTexts}
        \cup {VersionPrefix \o v : v \in ValueTexts}
        \cup OtherLines

RECURSIVE SeqsUpTo(_, _)
SeqsUpTo(S, n) ==
    IF n = 0
    THEN {<<>>}
    ELSE LET shorter == SeqsUpTo(S, n - 1)
         IN  shorter \cup {Append(q, x) : q \in shorter, x \in S}

\* The descriptors of the parser specification.
ParseDescriptors ==
    {Descriptor(ls, TRUE, 0) : ls \in SeqsUpTo(ParseLines, MaxLines)}
        \cup DescriptorStates

EnvNames == {"FLASK_ENV", "FLASK_DEBUG"}

EnvValues(k) ==
    IF k = "FLASK_ENV"
    THEN {<<"p", "r", "o", "d">>}
    ELSE {<<"T", "r", "u", "e">>, <<"1">>}

\* os.getenv(key, default)
GetEnv(env, key, default) ==
    IF key \in DOMAIN env THEN env[key] ELSE default

NoEnv  == [k \in {} |-> <<>>]
NoDict == [k \in {} |-> <<>>]

(***************************************************************************)
(* get_app_info                                                            *)
(***************************************************************************)
\* pyproject_path.exists()
PathExists(d) == d.exists

\* (variant) the file is opened whether or not it exists
AlwaysOpen(fnd) == "open"

\* where get_app_info goes after "if pyproject_path.exists():"
AfterExists(fnd) == IF fnd THEN "open" ELSE "return"

\* line.split('=')[1].strip().strip('"\'')
ExtractValue(line) == Strip(Strip(Split(line, "=")[2], Whitespace), Quotes)

\* (variant) the scan keeps the first value it finds for a key
ScanLineFirstMatch(name, version, raw) ==
    LET line == Strip(raw, Whitespace)
    IN  IF StartsWith(line, NamePrefix) /\ name = DefaultName
        THEN <<ExtractValue(line), version>>
        ELSE IF StartsWith(line, VersionPrefix) /\ version = DefaultVersion
             THEN <<name, ExtractValue(line)>>
             ELSE <<name, version>>

\* One pass of the body of "for line in f": the new <<app_name, app_version>>
ScanLine(name, version, raw) ==
    LET line == Strip(raw, Whitespace)
    IN  IF StartsWith(line, NamePrefix)
        THEN <<ExtractValue(line), version>>
        ELSE IF StartsWith(line, VersionPrefix)
             THEN <<name, ExtractValue(line)>>
             ELSE <<name, version>>

\* os.getenv('FLASK_ENV', 'development')
Environment(env) == GetEnv(env, "FLASK_ENV", DevelopmentText)

\* os.getenv('FLASK_DEBUG', 'false').lower() == 'true'
DebugMode(env) == Lower(GetEnv(env, "FLASK_DEBUG", FalseText)) = TrueText

\* (variant) the names are module-level variables, shared by every call
SharedGlobal(r) == "r1"

\* The variable of the call a name of get_app_info's body is bound to: its
\* own local
Local(r) == r

\* The dict of the normal return
NormalInfo(r) ==
    [name           |-> app_name[Local(r)],
     version        |-> app_version[Local(r)],
     python_version |-> PythonVersion,
     environment    |-> Environment(environ),
     debug_mode     |-> DebugMode(environ)]

\* (variant) the except branch returns what had been parsed so far
FallbackInfoKeepsParsed(r) ==
    [name           |-> app_name[Local(r)],
     version        |-> app_version[Local(r)],
     python_version |-> PythonVersion,
     environment    |-> Environment(environ),
     debug_mode     |-> DebugMode(environ),
     error          |-> ErrorPrefix \o exc[r]]

\* The dict of the "except Exception as e" return
FallbackInfo(r) ==
    [name           |-> DefaultName,
     version        |-> DefaultVersion,
     python_version |-> PythonVersion,
     environment    |-> Environment(environ),
     debug_mode     |-> DebugMode(environ),
     error          |-> ErrorPrefix \o exc[r]]

(***************************************************************************)
(* get_health_status and health_check                                      *)
(***************************************************************************)
DigitText == <<"0", "1", "2", "3", "4", "5", "6", "7", "8", "9">>

\* datetime.isoformat(): date, "T", time; the clock reading is its seconds
IsoFormat(now) == <<"T", DigitText[(now % 10) + 1]>>

\* (variant) the diagnostic of get_app_info is passed on
HealthStatusWithError(info, now) ==
    LET keys == {"status", "timestamp", "service", "version",
                 "python_version", "environment"}
                    \cup (DOMAIN info \cap {"error"})
    IN  [k \in keys |->
            CASE k = "status"         -> HealthyText
              [] k = "timestamp"      -> IsoFormat(now) \o <<"Z">>
              [] k = "service"        -> info.name
              [] k = "version"        -> info.version
              [] k = "python_version" -> info.python_version
              [] k = "environment"    -> info.environment
              [] OTHER                -> info.error]

\* (variant) the service name is the literal, not the one of get_app_info
HealthStatusLiteralService(info, now) ==
    [status         |-> HealthyText,
     timestamp      |-> IsoFormat(now) \o <<"Z">>,
     service        |-> DefaultName,
     version        |-> info.version,
     python_version |-> info.python_version,
     environment    |-> info.environment]

HealthStatus(info, now) ==
    [status         |-> HealthyText,
     timestamp      |-> IsoFormat(now) \o <<"Z">>,
     service        |-> info.name,
     version        |-> info.version,
     python_version |-> info.python_version,
     environment    |-> info.environment]

\* (variant) a degraded service is answered 503
HealthCheckUnavailable(status) ==
    [body   |-> status,
     status |-> IF status.version = DefaultVersion THEN 503 ELSE 200]

\* "return jsonify(get_health_status()), 200"
HealthCheck(status) == [body |-> status, status |-> 200]

NoResponse == [body |-> NoDict, status |-> 0]

(***************************************************************************)
(* Initial states                                                          *)
(***************************************************************************)
NoApp == [created |-> FALSE, DEBUG |-> FALSE]

InitCalls ==
    /\ pc          = [r \in Requests |-> "idle"]
    /\ found       = [r \in Requests |-> FALSE]
    /\ f           = [r \in Requests |-> Absent]
    /\ pos         = [r \in Requests |-> 0]
    /\ app_name    = [r \in Requests |-> <<>>]
    /\ app_version = [r \in Requests |-> <<>>]
    /\ exc         = [r \in Requests |-> <<>>]
    /\ env_seen    = [r \in Requests |-> NoEnv]
    /\ app_info    = [r \in Requests |-> NoDict]
    /\ response    = [r \in Requests |-> NoResponse]

Init ==
    /\ descriptor \in DescriptorStates
    /\ environ = NoEnv
    /\ app = NoApp
    /\ InitCalls

InitConcurrent ==
    /\ descriptor \in SharedDescriptors
    /\ environ = NoEnv
    /\ app = NoApp
    /\ InitCalls

InitParse ==
    /\ descriptor \in ParseDescriptors
    /\ environ = NoEnv
    /\ app = NoApp
    /\ InitCalls

(***************************************************************************)
(* The world outside the program                                           *)
(***************************************************************************)
World == <<descriptor, environ>>
Calls == <<pc, found, f, pos, app_name, app_version, exc, env_seen,
           app_info, response>>

\* The descriptor is replaced, removed or made unreadable.
WriteDescriptor(states) ==
    /\ \E d \in states : d # descriptor /\ descriptor' = d
    /\ UNCHANGED <<environ, app, Calls>>

\* A variable of the environment is set.
SetEnv(names) ==
    /\ \E k \in names : \E v \in EnvValues(k) :
          /\ GetEnv(environ, k, <<>>) # v
          /\ environ' = [n \in DOMAIN environ \cup {k} |->
                            IF n = k THEN v ELSE environ[n]]
    /\ UNCHANGED <<descriptor, app, Calls>>

\* A variable of the environment is unset.
UnsetEnv ==
    /\ \E k \in DOMAIN environ :
          environ' = [n \in DOMAIN environ \ {k} |-> environ[n]]
    /\ UNCHANGED <<descriptor, app, Calls>>

(***************************************************************************)
(* The program                                                             *)
(***************************************************************************)
\* The DEBUG setting create_app gives the application
ConfigDebug(env) == TRUE

\* create_app()
CreateApp ==
    /\ ~app.created
    /\ app' = [created |-> TRUE, DEBUG |-> ConfigDebug(environ)]
    /\ UNCHANGED <<World, Calls>>

\* GET /health is dispatched to health_check, which enters get_health_status
\* and get_app_info up to the binding of the two locals.
Receive(r) ==
    /\ app.created
    /\ pc[r] = "idle"
    /\ pc' = [pc EXCEPT ![r] = "exists"]
    /\ app_name' = [app_name EXCEPT ![Local(r)] = DefaultName]
    /\ app_version' = [app_version EXCEPT ![Local(r)] = DefaultVersion]
    /\ UNCHANGED <<World, app, found, f, pos, exc, env_seen, app_info,
                   response>>

\* if pyproject_path.exists():
Exists(r) ==
    /\ pc[r] = "exists"
    /\ found' = [found EXCEPT ![r] = PathExists(descriptor)]
    /\ pc' = [pc EXCEPT ![r] = AfterExists(found'[r])]
    /\ UNCHANGED <<World, app, f, pos, app_name, app_version, exc, env_seen,
                   app_info, response>>

\* with open(pyproject_path, 'r', encoding='utf-8') as f:
Open(r) ==
    /\ pc[r] = "open"
    /\ IF ~descriptor.exists
       THEN /\ exc' = [exc EXCEPT ![r] = StrFileNotFound]
            /\ pc' = [pc EXCEPT ![r] = "except"]
            /\ UNCHANGED f
       ELSE IF ~descriptor.readable
       THEN /\ exc' = [exc EXCEPT ![r] = StrPermission]
            /\ pc' = [pc EXCEPT ![r] = "except"]
            /\ UNCHANGED f
       ELSE /\ f' = [f EXCEPT ![r] = descriptor]
            /\ pc' = [pc EXCEPT ![r] = "scan"]
            /\ UNCHANGED exc
    /\ UNCHANGED <<World, app, found, pos, app_name, app_version, env_seen,
                   app_info, response>>

\* for line in f: one iteration, the end of the file, or a decoding error
NextLine(r) ==
    /\ pc[r] = "scan"
    /\ IF f[r].bad = pos[r] + 1
       THEN /\ exc' = [exc EXCEPT ![r] = StrUnicodeDecode]
            /\ pc' = [pc EXCEPT ![r] = "except"]
            /\ UNCHANGED <<pos, app_name, app_version>>
       ELSE IF pos[r] = Len(f[r].lines)
       THEN /\ pc' = [pc EXCEPT ![r] = "return"]
            /\ UNCHANGED <<pos, app_name, app_version, exc>>
       ELSE LET raw == f[r].lines[pos[r] + 1] \o <<"\n">>
                nv  == ScanLine(app_name[Local(r)], app_version[Local(r)], raw)
            IN  /\ app_name' = [app_name EXCEPT ![Local(r)] = nv[1]]
                /\ app_version' = [app_version EXCEPT ![Local(r)] = nv[2]]
                /\ pos' = [pos EXCEPT ![r] = pos[r] + 1]
                /\ UNCHANGED <<pc, exc>>
    /\ UNCHANGED <<World, app, found, f, env_seen, app_info, response>>

\* return {...} of the try block
Return(r) ==
    /\ pc[r] = "return"
    /\ app_info' = [app_info EXCEPT ![r] = NormalInfo(r)]
    /\ env_seen' = [env_seen EXCEPT ![r] = environ]
    /\ pc' = [pc EXCEPT ![r] = "health"]
    /\ UNCHANGED <<World, app, found, f, pos, app_name, app_version, exc,
                   response>>

\* except Exception as e: return {...}
Except(r) ==
    /\ pc[r] = "except"
    /\ app_info' = [app_info EXCEPT ![r] = FallbackInfo(r)]
    /\ env_seen' = [env_seen EXCEPT ![r] = environ]
    /\ pc' = [pc EXCEPT ![r] = "health"]
    /\ UNCHANGED <<World, app, found, f, pos, app_name, app_version, exc,
                   response>>

\* get_health_status builds its dict and health_check returns it with 200
Respond(r) ==
    /\ pc[r] = "health"
    /\ \E now \in 0..MaxTime :
          response' = [response EXCEPT
                          ![r] = HealthCheck(HealthStatus(app_info[r], now))]
    /\ pc' = [pc EXCEPT ![r] = "done"]
    /\ UNCHANGED <<World, app, found, f, pos, app_name, app_version, exc,
                   env_seen, app_info>>

\* The response is sent; the frames of the call are gone.
Finish(r) ==
    /\ pc[r] = "done"
    /\ pc' = [pc EXCEPT ![r] = "idle"]
    /\ found' = [found EXCEPT ![r] = FALSE]
    /\ f' = [f EXCEPT ![r] = Absent]
    /\ pos' = [pos EXCEPT ![r] = 0]
    /\ app_name' = [app_name EXCEPT ![r] = <<>>]
    /\ app_version' = [app_version EXCEPT ![r] = <<>>]
    /\ exc' = [exc EXCEPT ![r] = <<>>]
    /\ env_seen' = [env_seen EXCEPT ![r] = NoEnv]
    /\ app_info' = [app_info EXCEPT ![r] = NoDict]
    /\ response' = [response EXCEPT ![r] = NoResponse]
    /\ UNCHANGED <<World, app>>

Step(r) ==
    \/ Receive(r)
    \/ Exists(r)
    \/ Open(r)
    \/ NextLine(r)
    \/ Return(r)
    \/ Except(r)
    \/ Respond(r)
    \/ Finish(r)

\* One worker serving requests one after the other, while the descriptor and
\* the environment change under it.
Next ==
    \/ CreateApp
    \/ WriteDescriptor(DescriptorStates)
    \/ SetEnv(EnvNames)
    \/ UnsetEnv
    \/ Step("r1")

Spec == Init /\ [][Next]_vars

\* Requests served concurrently, their steps interleaved with each other and
\* with changes of the descriptor and of the environment.
NextConcurrent ==
    \/ CreateApp
    \/ WriteDescriptor(SharedDescriptors)
    \/ SetEnv(EnvNames)
    \/ UnsetEnv
    \/ \E r \in Requests : Step(r)

SpecConcurrent == InitConcurrent /\ [][NextConcurrent]_vars

\* One request at a time against a descriptor that does not change: the
\* parser applied to every descriptor of ParseDescriptors.
NextParse ==
    \/ CreateApp
    \/ Step("r1")

SpecParse == InitParse /\ [][NextParse]_vars

(***************************************************************************)
(* Properties                                                              *)
(***************************************************************************)
SixKeys == {"status", "timestamp", "service", "version", "python_version",
            "environment"}

Returned(r) == pc[r] \in {"health", "done"}    \* get_app_info has returned
Answered(r) == pc[r] = "done"                  \* health_check has returned
Failed(r)   == exc[r] # <<>>                   \* an exception was caught

EndsWith(s, suffix) ==
    /\ Len(s) >= Len(suffix)
    /\ SubSeq(s, Len(s) - Len(suffix) + 1, Len(s)) = suffix

\* C1: whatever the state of the descriptor (absent, well-formed, a key
\* missing, unreadable, undecodable), GET /health answers 200 with a body
\* whose keys are exactly the six documented ones.
C1_HealthIs200WithSixKeys ==
    \A r \in Requests :
        Answered(r) =>
            /\ response[r].status = 200
            /\ DOMAIN response[r].body = SixKeys

C1_Witness ==
    /\ Answered("r1")
    /\ exc["r1"] = StrPermission
    /\ response["r1"].status = 200

\* C2 as stated: when the read fails, the /health payload carries the
\* defaults and a diagnostic "error" string.
C2_ErrorInHealthPayload ==
    \A r \in Requests :
        (Answered(r) /\ Failed(r)) =>
            /\ response[r].body.service = DefaultName
            /\ response[r].body.version = DefaultVersion
            /\ "error" \in DOMAIN response[r].body

\* C2 amended: when the read fails, get_app_info's own result carries the
\* defaults and the "error" string; the /health payload carries the defaults
\* and no "error" key.
C2_ErrorOnlyInAppInfo ==
    \A r \in Requests :
        (Answered(r) /\ Failed(r)) =>
            /\ "error" \in DOMAIN app_info[r]
            /\ response[r].body.service = DefaultName
            /\ response[r].body.version = DefaultVersion
            /\ "error" \notin DOMAIN response[r].body

C2_Witness ==
    /\ Answered("r1")
    /\ exc["r1"] = StrUnicodeDecode
    /\ "error" \in DOMAIN app_info["r1"]

\* C3: an exception while opening, reading or parsing is caught: the call
\* returns name "prompt-tuner", version "unknown" (what was parsed before the
\* exception is dropped) and an "error" that carries str(e).
C3_FailureGivesDefaultsAndError ==
    \A r \in Requests :
        /\ pc[r] = "except" => Failed(r)
        /\ (Returned(r) /\ Failed(r)) =>
              /\ app_info[r].name = DefaultName
              /\ app_info[r].version = DefaultVersion
              /\ "error" \in DOMAIN app_info[r]
              /\ EndsWith(app_info[r].error, exc[r])

C3_Witness ==
    /\ Returned("r1")
    /\ exc["r1"] = StrUnicodeDecode
    /\ pos["r1"] = 1
    /\ app_name["r1"] = <<"p", "t">>
    /\ app_info["r1"].name = DefaultName

\* C4: for every content of the descriptor, the name and the version
\* get_app_info returns are non-empty.
C4_NameAndVersionNonEmpty ==
    \A r \in Requests :
        Returned(r) =>
            /\ app_info[r].name # <<>>
            /\ app_info[r].version # <<>>

\* C5: when exists() finds no descriptor, get_app_info returns the defaults
\* and no "error" field.
C5_AbsentGivesDefaultsNoError ==
    \A r \in Requests :
        (Returned(r) /\ ~found[r]) =>
            /\ app_info[r].name = DefaultName
            /\ app_info[r].version = DefaultVersion
            /\ "error" \notin DOMAIN app_info[r]

C5_Witness ==
    /\ Returned("r1")
    /\ ~found["r1"]
    /\ descriptor = Absent
    /\ app_info["r1"].name = DefaultName

\* The lines of a file that set a key, and the text a line gives the key:
\* what follows the prefix, without surrounding whitespace and quotes.
KeyLines(lines, prefix) ==
    {i \in 1..Len(lines) : StartsWith(Strip(lines[i], Whitespace), prefix)}

TextAfterPrefix(line, prefix) ==
    LET stripped == Strip(line, Whitespace)
        rest     == SubSeq(stripped, Len(prefix) + 1, Len(stripped))
    IN  Strip(Strip(rest, Whitespace), Quotes)

ValueOfKey(lines, prefix, default) ==
    IF KeyLines(lines, prefix) = {}
    THEN default
    ELSE TextAfterPrefix(lines[CHOOSE i \in KeyLines(lines, prefix) : TRUE],
                         prefix)

\* C6: for a readable descriptor with at most one line per key, the name is
\* the text after "name = " and the version the text after "version = ",
\* whitespace and quotes removed; a key that is missing takes its default.
C6_ValueOfTheKeyLine ==
    \A r \in Requests :
        (/\ Returned(r)
         /\ found[r]
         /\ ~Failed(r)
         /\ Cardinality(KeyLines(f[r].lines, NamePrefix)) <= 1
         /\ Cardinality(KeyLines(f[r].lines, VersionPrefix)) <= 1) =>
            /\ app_info[r].name =
                  ValueOfKey(f[r].lines, NamePrefix, DefaultName)
            /\ app_info[r].version =
                  ValueOfKey(f[r].lines, VersionPrefix, DefaultVersion)

\* Last(timestamp) = "Z"
EndsInZ(text) == text # <<>> /\ text[Len(text)] = "Z"

\* C7: get_health_status returns status "healthy", a timestamp ending in "Z",
\* and service, version, python_version, environment equal to the name,
\* version, python_version, environment of the get_app_info call inside it,
\* on the normal and on the fallback path.
C7_HealthMirrorsAppInfo ==
    \A r \in Requests :
        Answered(r) =>
            /\ response[r].body.status = HealthyText
            /\ EndsInZ(response[r].body.timestamp)
            /\ response[r].body.service = app_info[r].name
            /\ response[r].body.version = app_info[r].version
            /\ response[r].body.python_version = app_info[r].python_version
            /\ response[r].body.environment = app_info[r].environment

C7_Witness ==
    /\ Answered("r1")
    /\ "error" \notin DOMAIN app_info["r1"]
    /\ app_info["r1"].name = <<"p", "t">>
    /\ response["r1"].body.service = <<"p", "t">>

\* What get_app_info returns for a given outcome of exists(), a given file
\* content, a given caught exception and a given environment.
RECURSIVE ScanAll(_, _, _)
ScanAll(name, version, lines) ==
    IF lines = <<>>
    THEN <<name, version>>
    ELSE LET nv == ScanLine(name, version, Head(lines) \o <<"\n">>)
         IN  ScanAll(nv[1], nv[2], Tail(lines))

InfoFrom(fnd, file, failure, env) ==
    LET nv == IF fnd /\ failure = <<>>
              THEN ScanAll(DefaultName, DefaultVersion, file.lines)
              ELSE <<DefaultName, DefaultVersion>>
        common == [name           |-> nv[1],
                   version        |-> nv[2],
                   python_version |-> PythonVersion,
                   environment    |-> Environment(env),
                   debug_mode     |-> DebugMode(env)]
    IN  IF failure = <<>>
        THEN common
        ELSE [k \in DOMAIN common \cup {"error"} |->
                 IF k = "error" THEN ErrorPrefix \o failure ELSE common[k]]

ResultFromOwnReads ==
    \A r \in Requests :
        /\ Returned(r) =>
              app_info[r] = InfoFrom(found[r], f[r], exc[r], env_seen[r])
        /\ Answered(r) =>
              \E now \in 0..MaxTime :
                  response[r].body = HealthStatus(app_info[r], now)

CallsLeaveWorldAlone ==
    pc' # pc => (descriptor' = descriptor /\ environ' = environ)

\* C8: with health checks interleaved with each other and with changes of
\* the descriptor and of the environment, what a call returns is a function
\* of what that call itself read (the outcome of exists(), the file it
\* opened, the exception it caught, the environment at its return), and no
\* step of a call changes the descriptor or the environment.
C8_NoSharedStateNoCache ==
    []ResultFromOwnReads /\ [][CallsLeaveWorldAlone]_vars

C8_Witness ==
    /\ Answered("r1")
    /\ Answered("r2")
    /\ f["r1"] # f["r2"]
    /\ found["r1"] /\ found["r2"]
    /\ Failed("r1") /\ ~Failed("r2")
    /\ env_seen["r1"] # env_seen["r2"]
    /\ app_info["r1"].environment # app_info["r2"].environment

EqualsIgnoringCase(a, b) ==
    /\ Len(a) = Len(b)
    /\ \A i \in 1..Len(a) : LowerChar(a[i]) = LowerChar(b[i])

DebugRequested(env) ==
    /\ "FLASK_DEBUG" \in DOMAIN env
    /\ EqualsIgnoringCase(env["FLASK_DEBUG"], TrueText)

InfoFollowsEnvironment ==
    \A r \in Requests :
        Returned(r) =>
            /\ app_info[r].environment =
                  IF "FLASK_ENV" \in DOMAIN env_seen[r]
                  THEN env_seen[r]["FLASK_ENV"]
                  ELSE DevelopmentText
            /\ app_info[r].debug_mode = DebugRequested(env_seen[r])

AppDebugFollowsEnvironment ==
    (~app.created /\ app'.created) => (app'.DEBUG => DebugRequested(environ))

\* C9: get_app_info reports environment = FLASK_ENV (default "development")
\* and debug_mode = (FLASK_DEBUG is "true", ignoring case; default "false")
\* on both paths, and the application create_app builds has debug enabled
\* only when FLASK_DEBUG is "true", ignoring case.
C9_DebugFollowsEnvironment ==
    []InfoFollowsEnvironment /\ [][AppDebugFollowsEnvironment]_vars

\* The index of the first c in s at or after index from (Len(s) + 1: none)
IndexFrom(s, c, from) ==
    IF \E i \in from..Len(s) : s[i] = c
    THEN CHOOSE i \in from..Len(s) :
             s[i] = c /\ \A j \in from..(i - 1) : s[j] # c
    ELSE Len(s) + 1

\* The text between the first and the second "=" of a line
BetweenEquals(line) ==
    LET stripped == Strip(line, Whitespace)
        first    == IndexFrom(stripped, "=", 1)
        second   == IndexFrom(stripped, "=", first + 1)
    IN  SubSeq(stripped, first + 1, second - 1)

LastKeyLine(lines, prefix) ==
    CHOOSE i \in KeyLines(lines, prefix) :
        \A j \in KeyLines(lines, prefix) : j <= i

LastValueOfKey(lines, prefix, default) ==
    IF KeyLines(lines, prefix) = {}
    THEN default
    ELSE Strip(Strip(BetweenEquals(lines[LastKeyLine(lines, prefix)]),
                     Whitespace), Quotes)

\* C10: the scan runs to the end of the file whatever the sections: the value
\* of a key is taken from the LAST line that starts with its prefix, and it
\* is the text between the first and the second "=" of that line.
C10_LastLineWinsUpToSecondEquals ==
    \A r \in Requests :
        (Returned(r) /\ found[r] /\ ~Failed(r)) =>
            /\ app_info[r].name =
                  LastValueOfKey(f[r].lines, NamePrefix, DefaultName)
            /\ app_info[r].version =
                  LastValueOfKey(f[r].lines, VersionPrefix, DefaultVersion)

C10_Witness ==
    /\ Returned("r1")
    /\ f["r1"].lines = << NamePrefix \o <<" ", "'", "b", "'">>,
                          NamePrefix \o Quoted(<<"a", "=", "b">>) >>
    /\ app_info["r1"].name = <<"a">>

=============================================================================
